---- MODULE Spec2Model ----
(***************************************************************************)
(* Model of dbee/clients/redshift.go: RedshiftClient.Query (connection     *)
(* acquisition, deferred release, hand-off of the release callback to the  *)
(* result stream), RedshiftClient.Layout (metadata query + drain) and      *)
(* fetchPsqlLayouts / getLayoutType (grouping of metadata rows).           *)
(*                                                                         *)
(* The result stream (models.IterResult: Next, Close, SetCallback) and the *)
(* connection (common.DatabaseClient / Conn) live in other packages of the *)
(* repository; their behaviour is taken from the specification, sections   *)
(* 3 and 4.2.                                                              *)
(*                                                                         *)
(* Text values are sequences of one-character strings, so that trimming    *)
(* is computed and not assumed.                                            *)
(***************************************************************************)
EXTENDS Integers, Sequences, FiniteSets, TLC

\* ------------------------------------------------------------------ bounds
\* Number of connections the client acquires in one behaviour.
MaxQueries == 2
\* Number of rows a cursor delivers at most.
MaxRows == 3

\* ------------------------------------------------------------------ values
redshiftClient == "redshift"
\* another dialect tag handed to fetchPsqlLayouts by its other caller
otherClient == "postgres"
DbTypes == {redshiftClient, otherClient}

LayoutTypeNone == "none"
LayoutTypeTable == "table"
LayoutTypeView == "view"

TABLE == <<"T", "A", "B", "L", "E">>
VIEW == <<"V", "I", "E", "W">>
UNKNOWN == <<"X">>

\* schema and object names, plain and padded
sA == <<"a">>
sApad == <<" ", "a", " ">>
sB == <<"b">>
nT == <<"t">>
nU == <<"u">>
nUpad == <<" ", "u">>

\* A column value is dynamically typed (any): a string or something else.
Str(s) == [kind |-> "string", val |-> s]
NotStr == [kind |-> "int64", val |-> <<>>]
IsString(v) == v.kind = "string"

\* A Row as returned by Next: nil, or a slice of column values.
NilRow == [isNil |-> TRUE, cols |-> <<>>]
Row(cols) == [isNil |-> FALSE, cols |-> cols]

\* Rows a cursor of an arbitrary statement may hold (two- and three-column
\* metadata rows, padded values, an unknown type tag, and malformed rows).
AnyRows ==
    { <<Str(sA), Str(nT), Str(TABLE)>>,
      <<Str(sA), Str(nU), Str(VIEW)>>,
      <<Str(sA), Str(nU), Str(UNKNOWN)>>,
      <<Str(sB), Str(nT), Str(TABLE)>>,
      <<Str(sB), Str(nU), Str(VIEW)>>,
      <<Str(sApad), Str(nT), Str(TABLE)>>,
      <<Str(sA), Str(nT)>>,
      <<Str(sB), Str(nU)>>,
      <<NotStr, Str(nT), Str(TABLE)>>,
      <<Str(sA)>> }

\* pg_class JOIN pg_namespace entries outside the system schemas.
Catalog ==
    { [nspname |-> sA, relname |-> nT, relkind |-> "r"],
      [nspname |-> sApad, relname |-> nUpad, relkind |-> "v"],
      [nspname |-> sB, relname |-> nT, relkind |-> "r"],
      [nspname |-> sB, relname |-> nUpad, relkind |-> "v"] }
NoEntry == [nspname |-> <<>>, relname |-> <<>>, relkind |-> ""]

\* ------------------------------------------------------------ SQL trim()
RECURSIVE TrimLeft(_)
TrimLeft(s) == IF s # <<>> /\ Head(s) = " " THEN TrimLeft(Tail(s)) ELSE s

RECURSIVE TrimRight(_)
TrimRight(s) ==
    IF s # <<>> /\ s[Len(s)] = " " THEN TrimRight(SubSeq(s, 1, Len(s) - 1)) ELSE s

trim(s) == TrimRight(TrimLeft(s))

\* The row the metadata query of Layout yields for one catalog entry,
\* without the trim() calls (mutation of LayoutQueryRow).
LayoutQueryRowUntrimmed(e) ==
    << Str(e.nspname), Str(e.relname),
       Str(IF e.relkind = "v" THEN VIEW ELSE TABLE) >>

\* The row the metadata query of Layout yields for one catalog entry.
LayoutQueryRow(e) ==
    << Str(trim(e.nspname)), Str(trim(e.relname)),
       Str(IF e.relkind = "v" THEN VIEW ELSE TABLE) >>

\* ------------------------------------------------------------------ state
VARIABLES
    nconn,      \* connections acquired so far by c.c.Conn(); they are 1..nconn
    closes,     \* closes[con]: how many times con.Close() has run
    stream,     \* stream[con]: the result stream of the query run on con
    queryRet,   \* what the last Query returned: (rows, err)
    nextRet,    \* what the last Next returned: (row, err)
    pc,         \* position of the Layout / fetchPsqlLayouts call in progress
    mode,       \* "layout": entered through Layout; "direct": fetchPsqlLayouts called on a stream
    frows,      \* fetchPsqlLayouts: the rows parameter (a stream)
    dbType,     \* fetchPsqlLayouts: the dbType parameter
    children,   \* fetchPsqlLayouts: map[string][]models.Layout
    read,       \* the rows the drain loop has taken from Next, in order
    catRead,    \* for Layout: the catalog entries behind the rows of read
    errSeen,    \* whether Next has reported an error during this drain
    ret,        \* what fetchPsqlLayouts / Layout returned: (layout, err)
    db,         \* the underlying handle of the client: "open" or "closed"
    closeOut    \* the last Close of the client: what c.c.Close() answered, what the caller got

connVars == <<nconn, closes, stream, queryRet>>
fetchVars == <<pc, mode, frows, dbType, children, read, catRead, errSeen, ret>>
clientVars == <<db, closeOut>>
vars == <<nconn, closes, stream, queryRet, nextRet,
          pc, mode, frows, dbType, children, read, catRead, errSeen, ret,
          db, closeOut>>

Conns == 1..MaxQueries

\* -------------------------------------------------- result stream (spec 4.2)
NoStream ==
    [owner |-> "none", callback |-> 0, closed |-> FALSE, delivered |-> 0,
     source |-> "any"]

\* The stream con.Query returns: a fresh cursor, no release callback yet.
NewRows(src, own) ==
    [owner |-> own, callback |-> 0, closed |-> FALSE, delivered |-> 0,
     source |-> src]

SetCallback(st, con) == [st EXCEPT !.callback = con]

\* Rows (with the catalog entry behind them) the cursor of st can deliver.
CursorRows(st) ==
    IF st.source = "layout"
    THEN {[cols |-> LayoutQueryRow(e), cat |-> e] : e \in Catalog}
    ELSE {[cols |-> r, cat |-> NoEntry] : r \in AnyRows}

\* next(): after termination a no-op exhaustion signal; otherwise a row
\* (the cursor is finite: at most MaxRows of them), a RowError (the stream
\* stays open, no release), or exhaustion, which fires the release callback
\* and closes the stream.
StreamNextOutcomes(st) ==
    IF st.closed
    THEN {[row |-> NilRow, cat |-> NoEntry, err |-> "nil", st |-> st, fired |-> FALSE]}
    ELSE
        {[row |-> Row(r.cols), cat |-> r.cat, err |-> "nil",
          st |-> [st EXCEPT !.delivered = @ + 1], fired |-> FALSE] :
            r \in IF st.delivered < MaxRows THEN CursorRows(st) ELSE {}}
        \cup
        {[row |-> NilRow, cat |-> NoEntry, err |-> "nil",
          st |-> [st EXCEPT !.closed = TRUE, !.delivered = 0], fired |-> TRUE]}
        \cup
        {[row |-> NilRow, cat |-> NoEntry, err |-> "RowError", st |-> st, fired |-> FALSE]}
        \cup
        {[row |-> Row(r.cols), cat |-> r.cat, err |-> "RowError", st |-> st,
          fired |-> FALSE] : r \in CursorRows(st)}

\* (row, err) as the caller of Next sees it; rows are opaque to the stream.
NextResult(o) == [row |-> IF o.row.isNil THEN "nil" ELSE "row", err |-> o.err]

\* close(): idempotent; the first termination fires the release callback.
StreamCloseOutcome(st) ==
    IF st.closed
    THEN [st |-> st, fired |-> FALSE]
    ELSE [st |-> [st EXCEPT !.closed = TRUE, !.delivered = 0], fired |-> TRUE]

\* ------------------------------------------------------ RedshiftClient.Query
\* cb := func() { con.Close() }
cb(cl, con) == [cl EXCEPT ![con] = @ + 1]

\* The stream running its release callback, if one is assigned.
RunCallback(cl, st) == IF st.callback = 0 THEN cl ELSE cb(cl, st.callback)

DeferredReleaseNever(err, cl, con) == cl

DeferredReleaseAlways(err, cl, con) == cb(cl, con)

\* defer func() { if err != nil { cb() } }()
DeferredRelease(err, cl, con) == IF err # "nil" THEN cb(cl, con) ELSE cl

QueryRowsNoCallback(rows, con) == rows

QueryRowsSharedCallback(rows, con) == SetCallback(rows, 1)

\* rows.SetCallback(cb); return rows, nil
QueryRows(rows, con) == SetCallback(rows, con)

ConnFailedReleases(cl, con) == cb(cl, con)

\* if err != nil { return nil, err }: Query returns before cb exists and
\* before the release is deferred.
ConnFailed(cl, con) == cl

\* Query(query): the statement is src ("layout": the metadata query of
\* Layout), the stream goes to own. A closed handle hands out no connection.
QueryBody(src, own) ==
    \/ \* con, err := c.c.Conn(); if err != nil { return nil, err }
       /\ queryRet' = [rows |-> 0, err |-> "ConnectionError"]
       /\ closes' = ConnFailed(closes, nconn + 1)
       /\ UNCHANGED <<nconn, stream>>
    \/ \E qerr \in {"nil", "QueryError"} :
         LET con == nconn + 1 IN
         /\ db = "open"
         /\ nconn' = con
         /\ closes' = DeferredRelease(qerr, closes, con)
         /\ stream' = IF qerr = "nil"
                      THEN [stream EXCEPT ![con] = QueryRows(NewRows(src, own), con)]
                      ELSE stream
         /\ queryRet' = [rows |-> IF qerr = "nil" THEN con ELSE 0, err |-> qerr]

Init ==
    /\ nconn = 0
    /\ closes = [c \in Conns |-> 0]
    /\ stream = [c \in Conns |-> NoStream]
    /\ queryRet = [rows |-> 0, err |-> "nil"]
    /\ nextRet = [row |-> "nil", err |-> "nil"]
    /\ pc = "idle"
    /\ mode = "none"
    /\ frows = 0
    /\ dbType = ""
    /\ children = <<>>
    /\ read = <<>>
    /\ catRead = <<>>
    /\ errSeen = FALSE
    /\ ret = [layout |-> <<>>, err |-> "nil"]
    /\ db = "open"
    /\ closeOut = [called |-> FALSE, dbErr |-> "nil", returned |-> "nil"]

\* A caller runs a statement of its own.
Query ==
    /\ UNCHANGED clientVars
    /\ pc = "idle"
    /\ nconn < MaxQueries
    /\ QueryBody("any", "caller")
    /\ UNCHANGED <<nextRet, pc, mode, frows, dbType, children, read, catRead, errSeen, ret>>

\* A caller takes the next row of a stream it holds.
StreamNext(id) ==
    /\ UNCHANGED clientVars
    /\ pc = "idle"
    /\ stream[id].owner = "caller"
    /\ \E o \in StreamNextOutcomes(stream[id]) :
         /\ stream' = [stream EXCEPT ![id] = o.st]
         /\ closes' = IF o.fired THEN RunCallback(closes, stream[id]) ELSE closes
         /\ nextRet' = NextResult(o)
    /\ UNCHANGED <<nconn, queryRet>>
    /\ UNCHANGED fetchVars

\* A caller closes a stream it holds.
StreamClose(id) ==
    /\ UNCHANGED clientVars
    /\ pc = "idle"
    /\ stream[id].owner = "caller"
    /\ LET o == StreamCloseOutcome(stream[id]) IN
         /\ stream' = [stream EXCEPT ![id] = o.st]
         /\ closes' = IF o.fired THEN RunCallback(closes, stream[id]) ELSE closes
    /\ UNCHANGED <<nconn, queryRet, nextRet>>
    /\ UNCHANGED fetchVars

CloseResultPropagated(e) == e

\* c.c.Close(): its result is discarded; Close returns nothing.
CloseResult(e) == "nil"

\* Close(): closes the underlying handle, whatever the client is doing;
\* the handle may answer with an error.
Close ==
    /\ pc = "idle"
    /\ \E e \in {"nil", "CloseError"} :
         /\ db' = "closed"
         /\ closeOut' = [called |-> TRUE, dbErr |-> e, returned |-> CloseResult(e)]
    /\ UNCHANGED <<nconn, closes, stream, queryRet, nextRet>>
    /\ UNCHANGED fetchVars

\* ------------------------------------------------------------ getLayoutType
getLayoutTypeViewAsTable(typ) ==
    CASE typ = TABLE -> LayoutTypeTable
      [] typ = VIEW -> LayoutTypeTable
      [] OTHER -> LayoutTypeNone

getLayoutType(typ) ==
    CASE typ = TABLE -> LayoutTypeTable
      [] typ = VIEW -> LayoutTypeView
      [] OTHER -> LayoutTypeNone

\* --------------------------------------------------------- fetchPsqlLayouts
\* for { row, err := rows.Next(); if row == nil { break }
\*       if err != nil { return nil, err } ... }
DrainDecision(row, err) ==
    IF row.isNil THEN "break"
    ELSE IF err # "nil" THEN "return"
    ELSE "row"

\* The unchecked accesses row[0].(string), row[1].(string) and, for
\* redshift, row[2].(string): an absent column or a value that is no string
\* aborts the call with a run-time panic.
RowPanics(dt, row) ==
    \/ Len(row) < 1
    \/ ~IsString(row[1])
    \/ Len(row) < 2
    \/ ~IsString(row[2])
    \/ /\ dt = redshiftClient
       /\ \/ Len(row) < 3
          \/ ~IsString(row[3])

LeafTypeAlwaysFromColumn(dt, row) ==
    IF Len(row) >= 3 /\ IsString(row[3])
    THEN getLayoutType(row[3].val)
    ELSE LayoutTypeNone

\* Type: getLayoutType(typ) for redshift, models.LayoutTypeTable otherwise
LeafType(dt, row) ==
    IF dt = redshiftClient THEN getLayoutType(row[3].val) ELSE LayoutTypeTable

\* models.Layout{Name: table, Schema: schema, Database: dbType, Type: ...}
Leaf(dt, row) ==
    [Name |-> row[2].val, Schema |-> row[1].val, Database |-> dt,
     Type |-> LeafType(dt, row), Children |-> <<>>]

AppendChildOverwrite(ch, schema, node) ==
    [k \in DOMAIN ch \cup {schema} |-> IF k = schema THEN <<node>> ELSE ch[k]]

AppendChildPrepend(ch, schema, node) ==
    [k \in DOMAIN ch \cup {schema} |->
        IF k = schema
        THEN <<node>> \o (IF schema \in DOMAIN ch THEN ch[schema] ELSE <<>>)
        ELSE ch[k]]

\* children[schema] = append(children[schema], node)
AppendChild(ch, schema, node) ==
    [k \in DOMAIN ch \cup {schema} |->
        IF k = schema
        THEN Append(IF schema \in DOMAIN ch THEN ch[schema] ELSE <<>>, node)
        ELSE ch[k]]

GroupNodeNoSchema(dt, k, v) ==
    [Name |-> k, Schema |-> <<>>, Database |-> dt, Type |-> LayoutTypeNone,
     Children |-> v]

\* models.Layout{Name: k, Schema: k, Database: dbType, Type: LayoutTypeNone, Children: v}
GroupNode(dt, k, v) ==
    [Name |-> k, Schema |-> k, Database |-> dt, Type |-> LayoutTypeNone,
     Children |-> v]

\* for k, v := range children: the iteration order of a map is not fixed.
RangeOrders(ch) ==
    {f \in [1..Cardinality(DOMAIN ch) -> DOMAIN ch] :
        \A i, j \in DOMAIN f : i # j => f[i] # f[j]}

EmitLayoutZeroKeyGroup(dt, ch, order) ==
    IF order = <<>>
    THEN <<GroupNode(dt, <<>>, <<>>)>>
    ELSE [i \in DOMAIN order |-> GroupNode(dt, order[i], ch[order[i]])]

\* var layout []models.Layout; for k, v := range children { layout = append(...) }
EmitLayout(dt, ch, order) ==
    [i \in DOMAIN order |-> GroupNode(dt, order[i], ch[order[i]])]

\* Layout(): rows, err := c.Query(query); if err != nil { return nil, err };
\* return fetchPsqlLayouts(rows, redshiftClient)
Layout ==
    /\ UNCHANGED clientVars
    /\ pc = "idle"
    /\ nconn < MaxQueries
    /\ QueryBody("layout", "fetch")
    /\ mode' = "layout"
    /\ IF queryRet'.err # "nil"
       THEN /\ pc' = "done"
            /\ ret' = [layout |-> <<>>, err |-> queryRet'.err]
            /\ UNCHANGED <<frows, dbType>>
       ELSE /\ pc' = "fetch"
            /\ frows' = queryRet'.rows
            /\ dbType' = redshiftClient
            /\ UNCHANGED ret
    /\ UNCHANGED <<nextRet, children, read, catRead, errSeen>>

\* fetchPsqlLayouts(rows, dbType) called on a stream the caller holds.
FetchCall(id, dt) ==
    /\ UNCHANGED clientVars
    /\ pc = "idle"
    /\ stream[id].owner = "caller"
    /\ stream' = [stream EXCEPT ![id].owner = "fetch"]
    /\ pc' = "fetch"
    /\ mode' = "direct"
    /\ frows' = id
    /\ dbType' = dt
    /\ UNCHANGED <<nconn, closes, queryRet, nextRet, children, read, catRead, errSeen, ret>>

\* One iteration of the drain loop.
FetchStep ==
    /\ UNCHANGED clientVars
    /\ pc = "fetch"
    /\ \E o \in StreamNextOutcomes(stream[frows]) :
         /\ stream' = [stream EXCEPT ![frows] = o.st]
         /\ closes' = IF o.fired THEN RunCallback(closes, stream[frows]) ELSE closes
         /\ nextRet' = NextResult(o)
         /\ errSeen' = (errSeen \/ o.err # "nil")
         /\ LET d == DrainDecision(o.row, o.err) IN
            CASE d = "break" ->
                   /\ pc' = "emit"
                   /\ UNCHANGED <<children, read, catRead, ret>>
              [] d = "return" ->
                   /\ pc' = "done"
                   /\ ret' = [layout |-> <<>>, err |-> o.err]
                   /\ UNCHANGED <<children, read, catRead>>
              [] OTHER ->
                   /\ read' = Append(read, o.row.cols)
                   /\ catRead' = IF mode = "layout" THEN Append(catRead, o.cat) ELSE catRead
                   /\ IF RowPanics(dbType, o.row.cols)
                      THEN pc' = "panic" /\ UNCHANGED children
                      ELSE /\ pc' = "fetch"
                           /\ children' = AppendChild(children, o.row.cols[1].val,
                                                      Leaf(dbType, o.row.cols))
                   /\ UNCHANGED ret
    /\ UNCHANGED <<nconn, queryRet, mode, frows, dbType>>

\* After the loop: one group node per key of children; return layout, nil.
FetchEmit ==
    /\ UNCHANGED clientVars
    /\ pc = "emit"
    /\ \E order \in RangeOrders(children) :
         ret' = [layout |-> EmitLayout(dbType, children, order), err |-> "nil"]
    /\ pc' = "done"
    /\ UNCHANGED <<nconn, closes, stream, queryRet, nextRet,
                   mode, frows, dbType, children, read, catRead, errSeen>>

\* The call is over (returned, or aborted by a panic): its locals are gone.
\* A stream Layout created is referenced by nobody any more; a stream that
\* was handed to fetchPsqlLayouts is again the caller's.
FetchReturn ==
    /\ UNCHANGED clientVars
    /\ pc \in {"done", "panic"}
    /\ pc' = "idle"
    /\ stream' = IF frows = 0 THEN stream
                 ELSE [stream EXCEPT ![frows].owner =
                          IF mode = "layout" THEN "lost" ELSE "caller"]
    /\ mode' = "none"
    /\ frows' = 0
    /\ dbType' = ""
    /\ children' = <<>>
    /\ read' = <<>>
    /\ catRead' = <<>>
    /\ errSeen' = FALSE
    /\ ret' = [layout |-> <<>>, err |-> "nil"]
    /\ UNCHANGED <<nconn, closes, queryRet, nextRet>>

\* The client under arbitrary use: statements of the caller, whose streams
\* it drains and closes in any interleaving, and Layout calls.
Next ==
    \/ Query
    \/ \E id \in Conns : StreamNext(id)
    \/ \E id \in Conns : StreamClose(id)
    \/ Close
    \/ Layout
    \/ FetchStep
    \/ FetchEmit
    \/ FetchReturn

Spec == Init /\ [][Next]_vars

\* No stream is outstanding (spec 5: one outstanding stream per client).
NoneOutstanding == \A c \in Conns : stream[c].owner # "none" => stream[c].closed

QueryOne == NoneOutstanding /\ Query

LayoutOne == NoneOutstanding /\ Layout

\* The layout builder under sequential use: one stream at a time, handed to
\* fetchPsqlLayouts with either dialect tag, or built by Layout.
NextFetch ==
    \/ QueryOne
    \/ LayoutOne
    \/ \E id \in Conns, dt \in DbTypes : FetchCall(id, dt)
    \/ \E id \in Conns : StreamClose(id)
    \/ FetchStep
    \/ FetchEmit
    \/ FetchReturn

SpecFetch == Init /\ [][NextFetch]_vars

\* The drain loop is sequential code: once entered it keeps running.
SpecFetchFair == SpecFetch /\ WF_vars(FetchStep) /\ WF_vars(FetchEmit)

\* ================================================================== claims

\* C1: for every stream a successful Query returned, the release callback
\* (con.Close of that query's connection) has fired exactly once when the
\* stream has terminated, by exhaustion or by close, and never more than once.
C1_ReleaseExactlyOnce ==
    \A c \in Conns :
        /\ closes[c] <= 1
        /\ (stream[c].owner # "none" /\ stream[c].closed) => closes[c] = 1

\* A caller's stream that ended by the exhaustion signal, after rows were
\* taken from another one that was closed early.
C1_Witness ==
    \E c, d \in Conns :
        /\ c # d
        /\ stream[c].owner = "caller" /\ stream[c].closed /\ closes[c] = 1
        /\ stream[d].owner = "caller" /\ stream[d].closed /\ closes[d] = 1
        /\ nextRet = [row |-> "nil", err |-> "nil"]

\* C2: when con.Query fails after the connection was acquired, Query returns
\* the error and no stream, and the connection has been released exactly once.
C2_FailedQueryReleases ==
    queryRet.err = "QueryError" =>
        /\ queryRet.rows = 0
        /\ nconn >= 1
        /\ closes[nconn] = 1
        /\ stream[nconn].owner = "none"

C2_Witness ==
    /\ queryRet.err = "QueryError"
    /\ nconn = 2
    /\ closes[2] = 1

\* C3: when Layout returns after its metadata Query succeeded, the connection
\* of that query has been released exactly once, also when the drain was
\* aborted by an error of Next.
C3_LayoutReleasesOnce ==
    (pc = "done" /\ mode = "layout" /\ queryRet.err = "nil") => closes[frows] = 1

\* C4: when Next reported an error during the drain, fetchPsqlLayouts returns
\* an error and not a layout.
C4_RowErrorPropagated ==
    (pc = "done" /\ errSeen) => ret.err # "nil"

\* C5: the stream a successful Query returns has the release callback of the
\* query's own connection assigned, and that connection is not released
\* while the stream is neither drained nor closed.
C5_ReleaseHandedToStream ==
    \A c \in Conns :
        stream[c].owner # "none" =>
            /\ stream[c].callback = c
            /\ ~stream[c].closed => closes[c] = 0

\* Query has just returned a stream; rows were taken from an earlier one,
\* whose connection is still open.
C5_Witness ==
    /\ queryRet.rows = 2
    /\ queryRet.err = "nil"
    /\ ~stream[2].closed /\ closes[2] = 0 /\ stream[2].callback = 2
    /\ ~stream[1].closed /\ stream[1].delivered > 0 /\ closes[1] = 0

\* fetchPsqlLayouts has returned a layout after a drain without any error.
FetchedOK == pc = "done" /\ frows # 0 /\ ret.err = "nil" /\ ~errSeen

\* The rows of read whose schema column is k.
RowsOfSchema(k) ==
    LET InK(r) == r[1].val = k IN SelectSeq(read, InK)

\* C6: one group node per distinct schema of the rows read, and the groups'
\* children hold every row exactly once, under the group named by its schema.
C6_OneGroupPerSchema ==
    FetchedOK =>
        LET L == ret.layout
            keys == {read[i][1].val : i \in DOMAIN read}
            names == {read[i][2].val : i \in DOMAIN read}
        IN  /\ {L[g].Name : g \in DOMAIN L} = keys
            /\ Len(L) = Cardinality(keys)
            /\ \A g \in DOMAIN L :
                 /\ \A j \in DOMAIN L[g].Children : L[g].Children[j].Schema = L[g].Name
                 /\ \A n \in names :
                      Cardinality({j \in DOMAIN L[g].Children : L[g].Children[j].Name = n})
                      = Cardinality({i \in DOMAIN read :
                                        read[i][1].val = L[g].Name /\ read[i][2].val = n})
                 /\ Len(L[g].Children)
                      = Cardinality({i \in DOMAIN read : read[i][1].val = L[g].Name})

\* Three rows over two schemas have been grouped.
C6_Witness ==
    /\ FetchedOK
    /\ Len(read) = 3
    /\ Len(ret.layout) = 2
    /\ \E g \in DOMAIN ret.layout : Len(ret.layout[g].Children) = 2

\* C7: the children of a group are in the order in which their rows were read.
C7_ChildrenInReadOrder ==
    FetchedOK =>
        \A g \in DOMAIN ret.layout :
            LET ch == ret.layout[g].Children
                rs == RowsOfSchema(ret.layout[g].Name)
            IN  [j \in DOMAIN ch |-> ch[j].Name] = [j \in DOMAIN rs |-> rs[j][2].val]

\* Rows of one schema with different names, a row of another schema read
\* between them.
C7_Witness ==
    /\ FetchedOK
    /\ Len(read) = 3
    /\ read[1][1].val = read[3][1].val
    /\ read[1][1].val # read[2][1].val
    /\ read[1][2].val # read[3][2].val

\* C8: for redshift the kind of a leaf comes from the third column of its
\* row alone: "TABLE" table, "VIEW" view, anything else untyped.
C8_TypeFromThirdColumn ==
    (FetchedOK /\ dbType = redshiftClient) =>
        \A g \in DOMAIN ret.layout :
            LET ch == ret.layout[g].Children
                rs == RowsOfSchema(ret.layout[g].Name)
            IN  /\ Len(ch) = Len(rs)
                /\ \A j \in DOMAIN ch :
                     ch[j].Type = IF rs[j][3].val = TABLE THEN LayoutTypeTable
                                  ELSE IF rs[j][3].val = VIEW THEN LayoutTypeView
                                  ELSE LayoutTypeNone

\* A table, a view and an untyped leaf in one redshift layout.
C8_Witness ==
    /\ FetchedOK
    /\ dbType = redshiftClient
    /\ \A t \in {LayoutTypeTable, LayoutTypeView, LayoutTypeNone} :
         \E g \in DOMAIN ret.layout : \E j \in DOMAIN ret.layout[g].Children :
            ret.layout[g].Children[j].Type = t

\* C9: for a dialect other than redshift every leaf is a table whatever the
\* rows hold, and the third column is not read: only a row malformed in its
\* first two columns aborts the drain.
C9_UntypedDialectAllTables ==
    dbType # redshiftClient =>
        /\ (pc = "done" /\ ret.err = "nil") =>
              \A g \in DOMAIN ret.layout : \A j \in DOMAIN ret.layout[g].Children :
                 ret.layout[g].Children[j].Type = LayoutTypeTable
        /\ pc = "panic" =>
              LET r == read[Len(read)] IN
              \/ Len(r) < 2
              \/ ~IsString(r[1])
              \/ ~IsString(r[2])

\* A two-column row and a three-column row tagged VIEW, both grouped.
C9_Witness ==
    /\ FetchedOK
    /\ dbType = otherClient
    /\ \E i \in DOMAIN read : Len(read[i]) = 2
    /\ \E i \in DOMAIN read : Len(read[i]) = 3 /\ read[i][3].val = VIEW
    /\ ret.layout # <<>>

\* C10 as stated: the builder trims, so group and leaf names carry no
\* surrounding whitespace and no two groups differ by whitespace only.
C10_BuilderTrims ==
    FetchedOK =>
        LET L == ret.layout IN
        /\ \A g \in DOMAIN L :
             /\ trim(L[g].Name) = L[g].Name
             /\ \A j \in DOMAIN L[g].Children :
                  trim(L[g].Children[j].Name) = L[g].Children[j].Name
        /\ \A g, h \in DOMAIN L : g # h => trim(L[g].Name) # trim(L[h].Name)

\* C10 amended: fetchPsqlLayouts uses the schema and name values as the
\* stream delivers them; the trimming is done by the metadata query of
\* Layout, so that for Layout catalog entries whose schema names differ only
\* by surrounding whitespace are under one group named by the trimmed value.
C10_TrimOnlyInQuery ==
    FetchedOK =>
        LET L == ret.layout IN
        /\ \A i \in DOMAIN read :
             \E g \in DOMAIN L :
                /\ L[g].Name = read[i][1].val
                /\ \E j \in DOMAIN L[g].Children :
                      L[g].Children[j].Name = read[i][2].val
        /\ mode = "layout" =>
             /\ Len(catRead) = Len(read)
             /\ \A i \in DOMAIN catRead :
                  \E g \in DOMAIN L :
                     /\ L[g].Name = trim(catRead[i].nspname)
                     /\ Len(L[g].Children)
                          = Cardinality({k \in DOMAIN catRead :
                               trim(catRead[k].nspname) = trim(catRead[i].nspname)})
                     /\ \E j \in DOMAIN L[g].Children :
                          L[g].Children[j].Name = trim(catRead[i].relname)
             /\ \A g, h \in DOMAIN L : g # h => trim(L[g].Name) # trim(L[h].Name)

\* Layout has merged a padded and an unpadded catalog schema into one group.
C10_Witness ==
    /\ FetchedOK
    /\ mode = "layout"
    /\ \E i, k \in DOMAIN catRead :
          catRead[i].nspname = sA /\ catRead[k].nspname = sApad
    /\ Len(ret.layout) = 1
    /\ ret.layout[1].Name = sA

\* C11: when the first Next already signals exhaustion, fetchPsqlLayouts
\* returns an empty collection and no error (so no node with an empty name),
\* and no group node is ever emitted without children.
C11_EmptyResultEmptyLayout ==
    (pc = "done" /\ frows # 0 /\ ~errSeen) =>
        /\ read = <<>> => (ret.layout = <<>> /\ ret.err = "nil")
        /\ \A g \in DOMAIN ret.layout : ret.layout[g].Children # <<>>

\* The stream handed to fetchPsqlLayouts was exhausted at the first Next.
C11_Witness ==
    /\ pc = "done"
    /\ mode = "direct"
    /\ read = <<>>
    /\ ~errSeen
    /\ nextRet = [row |-> "nil", err |-> "nil"]
    /\ stream[frows].closed
    /\ ret = [layout |-> <<>>, err |-> "nil"]

\* A metadata row the claim calls malformed for dialect dt.
MalformedRow(dt, r) ==
    \/ Len(r) < 2
    \/ ~IsString(r[1])
    \/ ~IsString(r[2])
    \/ dt = redshiftClient /\ Len(r) < 3

\* C12: a malformed metadata row makes the builder return a SchemaError to
\* its caller instead of aborting, and the connection of the stream being
\* drained does not stay unreleased.
C12_SchemaErrorReturned ==
    (read # <<>> /\ MalformedRow(dbType, read[Len(read)])) =>
        /\ pc = "done"
        /\ ret.err = "SchemaError"
        /\ closes[frows] = 1

\* C16 as stated: group nodes carry no parent-schema reference, leaves carry
\* the name of their group.
C16_GroupsHaveNoParent ==
    FetchedOK =>
        \A g \in DOMAIN ret.layout :
            /\ ret.layout[g].Schema = <<>>
            /\ \A j \in DOMAIN ret.layout[g].Children :
                 ret.layout[g].Children[j].Schema = ret.layout[g].Name

\* C16 amended: a group node names itself as its schema (Schema = Name) and
\* is untyped; every leaf carries the name of its group as schema and has no
\* children.
C16_GroupsNameThemselves ==
    FetchedOK =>
        \A g \in DOMAIN ret.layout :
            /\ ret.layout[g].Schema = ret.layout[g].Name
            /\ ret.layout[g].Schema # <<>>
            /\ ret.layout[g].Type = LayoutTypeNone
            /\ \A j \in DOMAIN ret.layout[g].Children :
                 /\ ret.layout[g].Children[j].Schema = ret.layout[g].Name
                 /\ ret.layout[g].Children[j].Children = <<>>

\* Two groups, one of them with two leaves.
C16_Witness ==
    /\ FetchedOK
    /\ Len(ret.layout) = 2
    /\ ret.layout[1].Schema = ret.layout[1].Name
    /\ \E g \in DOMAIN ret.layout : Len(ret.layout[g].Children) = 2

\* C14: a Query that cannot acquire a connection returns the error and no
\* stream, runs nothing and releases nothing; no connection is released
\* that was not acquired, and none more than once.
C14_NoReleaseWithoutAcquire ==
    /\ queryRet.err = "ConnectionError" => queryRet.rows = 0
    /\ \A c \in Conns :
         /\ c > nconn => (closes[c] = 0 /\ stream[c].owner = "none")
         /\ c <= nconn => closes[c] <= 1

\* The acquisition failed while the handle was open and an earlier stream
\* was outstanding.
C14_Witness ==
    /\ queryRet = [rows |-> 0, err |-> "ConnectionError"]
    /\ db = "open"
    /\ nconn = 1
    /\ ~stream[1].closed /\ closes = [c \in Conns |-> 0]

\* C15: Close can be called in every state of the client, closes the
\* underlying handle, and hands no close-time error to its caller.
C15_CloseUnconditional ==
    /\ pc = "idle" => ENABLED Close
    /\ closeOut.called => (db = "closed" /\ closeOut.returned = "nil")

\* Close was called while a stream was still open, and the handle answered
\* with an error.
C15_Witness ==
    /\ closeOut.called
    /\ closeOut.dbErr = "CloseError"
    /\ db = "closed"
    /\ \E c \in Conns : stream[c].owner = "caller" /\ ~stream[c].closed

\* C17: the drain loop of fetchPsqlLayouts eventually returns, and once it
\* has left the loop it does not call Next again.
C17_DrainReturns ==
    /\ (pc = "fetch") ~> (pc = "done")
    /\ [][(pc \in {"emit", "done"}) => (nextRet' = nextRet)]_vars

\* C18: the termination of a stream releases the connection of its own
\* query and no other; a stream that is still open keeps its connection.
C18_ReleaseOwnConnectionOnly ==
    [][ \A c \in Conns :
          /\ (stream[c].owner # "none" /\ ~stream[c].closed /\ stream'[c].closed)
                => closes' = [closes EXCEPT ![c] = closes[c] + 1]
          /\ (stream'[c].owner # "none" /\ ~stream'[c].closed) => closes'[c] = 0
      ]_vars

\* The later of two outstanding streams has terminated; the earlier one,
\* partly read, is open and so is its connection.
C18_Witness ==
    /\ stream[2].owner = "caller" /\ stream[2].closed /\ closes[2] = 1
    /\ stream[1].owner = "caller" /\ ~stream[1].closed
    /\ stream[1].delivered > 0
    /\ closes[1] = 0

====
